---- MODULE Spec2Model ----
(***************************************************************************)
(* Anonymous e-cash with cheater identification (task3/driver.js).         *)
(*                                                                         *)
(* A buyer builds a coin that commits to the buyer's identity in k pairs   *)
(* of one-time-pad shares, the bank signs it blindly, merchants accept it  *)
(* by checking the signature and one randomly chosen share per round, and  *)
(* the bank resolves a double spend from two revealed share sets.          *)
(*                                                                         *)
(* Strings and buffers are sequences of integers: a string is the sequence *)
(* of its character codes, a Buffer the sequence of its bytes (0..255).    *)
(* Round indices are 0-based as in the code; sequence positions are i+1.   *)
(*                                                                         *)
(* The blind-signature primitive and the hash are idealised: a signature   *)
(* is a term that verifies only against the message and key it was made    *)
(* for, and the digest is collision-free.                                  *)
(***************************************************************************)
EXTENDS Integers, Sequences, FiniteSets, TLC

VARIABLES
    coin,      \* the Coin object of the demo (driver.js:120)
    acc,       \* the acceptCoin call in progress: its position and locals
    result,    \* per merchant, what its acceptCoin call gave the caller
    verdict    \* what the two determineCheater calls of the demo printed

vars == <<coin, acc, result, verdict>>

---------------------------------------------------------------------------
\* Bounds of the model.

\* number of rounds k (COIN_RIS_LENGTH of coin.js, imported at driver.js:5)
COIN_RIS_LENGTH == 2
\* amounts are 1..MaxAmount
MaxAmount == 2
\* seeds of the random source that coin construction draws from
MaxSeed == 1

---------------------------------------------------------------------------
\* Characters and constant strings.

Dash == 45
Comma == 44
\* U+FFFD, what Buffer.toString() gives for a byte that is not ASCII
ReplacementChar == 65533

\* "BANK": the issuer tag every coin string starts with
BANK_STR == <<66, 65, 78, 75>>
\* "IDENT-": the marker the identity string starts with
IDENT_STR == <<73, 68, 69, 78, 84, 45>>

\* the bank's public key (modulus and exponent of BANK_KEY)
N == "bank.n"
E == "bank.e"

\* purchasers: "a" and "bo"
Purchasers == { <<97>>, <<98, 111>> }
\* guids: "0a"
Guids == { <<48, 97>> }
\* a tag that is not the bank's: "BONK"
ForgedTags == { <<66, 79, 78, 75>> }
\* what a tampered character is replaced by ("0" or "-", so that every
\* position can change), and what a tampered byte is flipped with
TamperChars == { 48, 45 }
TamperMasks == { 1 }

Merchants == {1, 2}
Rounds == 0 .. (COIN_RIS_LENGTH - 1)

---------------------------------------------------------------------------
\* Bytes, hex text, strings.

RECURSIVE BitXor(_, _, _)
BitXor(a, b, w) ==
    IF w = 0 THEN 0
    ELSE (((a % 2) + (b % 2)) % 2) + 2 * BitXor(a \div 2, b \div 2, w - 1)

\* buf1[j] ^ buf2[j] on bytes
ByteXor(a, b) == BitXor(a, b, 8)

HexDigit(d) == IF d < 10 THEN 48 + d ELSE 87 + d

\* value of a hex character, -1 when it is none
HexValue(c) ==
    IF c >= 48 /\ c <= 57 THEN c - 48
    ELSE IF c >= 97 /\ c <= 102 THEN c - 87
    ELSE IF c >= 65 /\ c <= 70 THEN c - 55
    ELSE -1

\* buf.toString('hex'): two lower-case hex digits per byte
ToHex(buf) ==
    [p \in 1 .. 2 * Len(buf) |->
        IF p % 2 = 1 THEN HexDigit(buf[(p + 1) \div 2] \div 16)
        ELSE HexDigit(buf[p \div 2] % 16)]

\* Buffer.from(s, 'hex'): whole pairs of hex digits, up to the first pair
\* that is not hex; a trailing odd character is dropped
RECURSIVE FromHex(_)
FromHex(s) ==
    IF Len(s) < 2 THEN <<>>
    ELSE IF HexValue(s[1]) < 0 \/ HexValue(s[2]) < 0 THEN <<>>
    ELSE <<16 * HexValue(s[1]) + HexValue(s[2])>> \o FromHex(SubSeq(s, 3, Len(s)))

\* buf.toString(): ASCII bytes decode to themselves, any other byte to U+FFFD
BufToString(buf) ==
    [p \in 1 .. Len(buf) |-> IF buf[p] < 128 THEN buf[p] ELSE ReplacementChar]

\* s.startsWith(prefix)
StartsWith(s, prefix) ==
    /\ Len(s) >= Len(prefix)
    /\ SubSeq(s, 1, Len(prefix)) = prefix

\* decimal text of a positive integer
RECURSIVE NumToString(_)
NumToString(n) ==
    IF n < 10 THEN <<48 + n>>
    ELSE NumToString(n \div 10) \o <<48 + (n % 10)>>

\* parts.join(sep)
RECURSIVE Join(_, _)
Join(parts, sep) ==
    IF Len(parts) = 0 THEN <<>>
    ELSE IF Len(parts) = 1 THEN parts[1]
    ELSE parts[1] \o <<sep>> \o Join(Tail(parts), sep)

\* s.split(sep): always at least one field
Split(s, sep) ==
    LET fields[t \in Seq(Int)] ==
            IF \A p \in 1 .. Len(t) : t[p] # sep THEN <<t>>
            ELSE LET q == CHOOSE p \in 1 .. Len(t) :
                              /\ t[p] = sep
                              /\ \A r \in 1 .. (p - 1) : t[r] # sep
                 IN <<SubSeq(t, 1, q - 1)>> \o fields[SubSeq(t, q + 1, Len(t))]
    IN fields[s]

---------------------------------------------------------------------------
\* External primitives: one-time pad, hash, blind signature.

\* the random pad byte j of round i drawn under a seed
PadByte(seed, i, j) == (seed * 101 + i * 37 + j * 59) % 256

\* utils.makeOTP: a random key as long as the string, and the string XOR key
makeOTP(string, seed, i) ==
    LET key == [j \in 1 .. Len(string) |-> PadByte(seed, i, j)]
    IN [key |-> key,
        ciphertext |-> [j \in 1 .. Len(string) |-> ByteXor(string[j], key[j])]]

\* utils.hash: hex text of a digest; the digest is a collision-free byte
\* transformation of the input (reversed, each byte mapped one-to-one)
hash(buf) ==
    ToHex([j \in 1 .. Len(buf) |-> (buf[Len(buf) + 1 - j] * 7 + 13) % 256])

\* no signature attached yet
NoSignature == [kind |-> "none", n |-> "", msg |-> <<>>, r |-> 0]

\* blindSignatures.blind: the message hidden under blinding factor r
blind(message, n, r) == [kind |-> "blinded", n |-> n, msg |-> message, r |-> r]

\* signCoin: the bank signs whatever blinded value it is given, with BANK_KEY
signCoin(blindedCoinHash) ==
    [kind |-> "signedBlinded", n |-> N,
     msg |-> blindedCoinHash.msg, r |-> blindedCoinHash.r]

\* blindSignatures.unblind: removing the factor the message was blinded with
\* leaves the bank's signature of the message; anything else is no signature
unblind(signed, n, r) ==
    IF signed.kind = "signedBlinded" /\ signed.r = r /\ signed.n = n
    THEN [kind |-> "signature", n |-> signed.n, msg |-> signed.msg, r |-> 0]
    ELSE [kind |-> "garbage", n |-> signed.n, msg |-> signed.msg, r |-> signed.r]

\* faulty variant: a bank response still under its blinding factor passes
verify_blindedToo(unblinded, n, e, message) ==
    /\ unblinded.kind \in {"signature", "signedBlinded"}
    /\ unblinded.n = n
    /\ e = E
    /\ unblinded.msg = message

\* blindSignatures.verify({unblinded, N, E, message})
verify(unblinded, n, e, message) ==
    /\ unblinded.kind = "signature"
    /\ unblinded.n = n
    /\ e = E
    /\ unblinded.msg = message

---------------------------------------------------------------------------
\* The Coin object.

NoTamper == [what |-> "none", left |-> FALSE, round |-> 0]

NoCoin ==
    [created |-> FALSE, purchaser |-> <<>>, amount |-> 0, guid |-> <<>>,
     n |-> "", e |-> "", leftIdent |-> <<>>, rightIdent |-> <<>>,
     coinString |-> <<>>, blinded |-> NoSignature, blindingFactor |-> 0,
     signature |-> NoSignature, tamper |-> NoTamper]

\* new Coin(purchaser, amount, n, e): guid, k one-time-pad pairs of the
\* identity string, their hashes, the coin string, and its blinding.
\* tag is the issuer tag written at the head of the coin string.
Coin(purchaser, amount, n, e, guid, seed, tag) ==
    LET idString == IDENT_STR \o purchaser
        otp == [i \in 1 .. COIN_RIS_LENGTH |-> makeOTP(idString, seed, i - 1)]
        leftIdent == [i \in 1 .. COIN_RIS_LENGTH |-> otp[i].key]
        rightIdent == [i \in 1 .. COIN_RIS_LENGTH |-> otp[i].ciphertext]
        leftHashes == [i \in 1 .. COIN_RIS_LENGTH |-> hash(leftIdent[i])]
        rightHashes == [i \in 1 .. COIN_RIS_LENGTH |-> hash(rightIdent[i])]
        coinString == tag \o <<Dash>> \o NumToString(amount) \o <<Dash>> \o guid
                          \o <<Dash>> \o Join(leftHashes, Comma)
                          \o <<Dash>> \o Join(rightHashes, Comma)
    IN [created |-> TRUE, purchaser |-> purchaser, amount |-> amount,
        guid |-> guid, n |-> n, e |-> e,
        leftIdent |-> leftIdent, rightIdent |-> rightIdent,
        coinString |-> coinString,
        blinded |-> blind(coinString, n, seed), blindingFactor |-> seed,
        signature |-> NoSignature, tamper |-> NoTamper]

\* coin.toString()
CoinToString(c) == c.coinString

\* coin.getRis(isLeft, i)
getRis(c, isLeft, i) == IF isLeft THEN c.leftIdent[i + 1] ELSE c.rightIdent[i + 1]

---------------------------------------------------------------------------
\* parseCoin.

\* what reading past the end of an array gives
Undefined == <<-1>>

\* faulty variant: the issuer tag is not looked at
parseCoin_noTagCheck(s) ==
    LET fields == Split(s, Dash)
    IN IF Len(fields) < 5
       THEN [error |-> "TypeError", lh |-> <<>>, rh |-> <<>>]
       ELSE [error |-> "none",
             lh |-> Split(fields[4], Comma),
             rh |-> Split(fields[5], Comma)]

\* parseCoin(s): the two hash lists, or the error thrown
parseCoin(s) ==
    LET fields == Split(s, Dash)
        cnst == fields[1]
    IN IF cnst # BANK_STR
       THEN [error |-> "MalformedCoin", lh |-> <<>>, rh |-> <<>>]
       ELSE IF Len(fields) < 5
       THEN [error |-> "TypeError", lh |-> <<>>, rh |-> <<>>]
       ELSE [error |-> "none",
             lh |-> Split(fields[4], Comma),
             rh |-> Split(fields[5], Comma)]

---------------------------------------------------------------------------
\* acceptCoin, step by step.  A call runs to its end before anything else
\* happens (the program is single-threaded): every other action waits for
\* the call in progress.

Idle ==
    [state |-> "Idle", m |-> 0, i |-> 0, ris |-> <<>>, sides |-> <<>>,
     visited |-> <<>>, lh |-> <<>>, rh |-> <<>>]

NoResult ==
    [status |-> "none", error |-> "none", at |-> -1, ris |-> <<>>,
     sides |-> <<>>, visited |-> <<>>, sig |-> "none"]

InProgress ==
    acc.state \in {"Received", "SignatureChecked", "Parsed", "SharesCollected"}

\* faulty variant: the signature is checked to be a signature of this key, but not
\* against the coin string
SignatureValid_anyMessage(c) ==
    /\ c.signature.kind = "signature"
    /\ c.signature.n = c.n

\* faulty variant: the outcome of the verification is ignored
SignatureValid_ignored(c) == TRUE

\* step 1 of acceptCoin: the signature is checked against coin.toString()
\* under the key the coin carries
SignatureValid(c) == verify(c.signature, c.n, c.e, CoinToString(c))

\* faulty variant: the sides are swapped
Expected_swapped(chooseLeft, leftHashes, rightHashes, i) ==
    LET hashes == IF chooseLeft THEN rightHashes ELSE leftHashes
    IN IF i + 1 <= Len(hashes) THEN hashes[i + 1] ELSE Undefined

\* faulty variant: the revealed share is not compared with a committed hash but
\* with its own hash
Expected_unchecked(chooseLeft, leftHashes, rightHashes, i) ==
    hash(getRis(coin, chooseLeft, i))

\* the committed hash the revealed share is compared with
Expected(chooseLeft, leftHashes, rightHashes, i) ==
    LET hashes == IF chooseLeft THEN leftHashes ELSE rightHashes
    IN IF i + 1 <= Len(hashes) THEN hashes[i + 1] ELSE Undefined

\* faulty variant: unshift instead of push
Pushed_unshift(ris, part) == <<ToHex(part)>> \o ris

\* ris.push(part.toString('hex'))
Pushed(ris, part) == Append(ris, ToHex(part))

\* the issuer tag at the head of a coin string
TagOf(c) == Split(CoinToString(c), Dash)[1]

\* faulty variant: the shares collected before the failure reach the caller
Thrown_partial(error, at, ris, sides, visited) ==
    [status |-> "Rejected", error |-> error, at |-> at, ris |-> ris,
     sides |-> sides, visited |-> Append(visited, "Rejected"),
     sig |-> coin.signature.kind]

\* what the caller has after acceptCoin threw: the error and nothing else
\* (the shares collected so far are local to the call and are lost)
Thrown(error, at, ris, sides, visited) ==
    [status |-> "Rejected", error |-> error, at |-> at, ris |-> <<>>,
     sides |-> sides, visited |-> Append(visited, "Rejected"),
     sig |-> coin.signature.kind]

\* what the caller has after acceptCoin returned ris
Returned(ris, sides, visited) ==
    [status |-> "Accepted", error |-> "none", at |-> -1, ris |-> ris,
     sides |-> sides, visited |-> Append(visited, "Accepted"),
     sig |-> coin.signature.kind]

\* a throw inside acceptCoin ends the call
Reject(error, at, sides) ==
    /\ acc' = [Idle EXCEPT !.state = "Rejected", !.m = acc.m]
    /\ result' = [result EXCEPT
                    ![acc.m] = Thrown(error, at, acc.ris, sides, acc.visited)]

\* merchant m calls acceptCoin(coin), once, with a coin that carries a
\* signature (blinded still, or unblinded)
AcceptCoin(m) ==
    /\ ~InProgress
    /\ coin.created
    /\ coin.signature.kind # "none"
    /\ result[m].status = "none"
    /\ acc' = [Idle EXCEPT !.state = "Received", !.m = m,
                           !.visited = <<"Received">>]
    /\ UNCHANGED <<coin, result, verdict>>

\* 1) verify that the signature is valid
AcceptVerify ==
    /\ acc.state = "Received"
    /\ IF SignatureValid(coin)
       THEN /\ acc' = [acc EXCEPT !.state = "SignatureChecked",
                                  !.visited = Append(@, "SignatureChecked")]
            /\ UNCHANGED result
       ELSE Reject("InvalidSignature", -1, acc.sides)
    /\ UNCHANGED <<coin, verdict>>

\* 2) parseCoin(coin.toString())
AcceptParse ==
    /\ acc.state = "SignatureChecked"
    /\ LET parsed == parseCoin(CoinToString(coin))
           next == IF COIN_RIS_LENGTH = 0 THEN "SharesCollected" ELSE "Parsed"
       IN IF parsed.error # "none"
          THEN Reject(parsed.error, -1, acc.sides)
          ELSE /\ acc' = [acc EXCEPT !.state = next,
                                     !.visited = Append(@, next),
                                     !.lh = parsed.lh, !.rh = parsed.rh]
               /\ UNCHANGED result
    /\ UNCHANGED <<coin, verdict>>

\* faulty variant: on a mismatch the rounds are run again from round 0
AcceptRound_retry(chooseLeft) ==
    /\ acc.state = "Parsed"
    /\ LET part == getRis(coin, chooseLeft, acc.i)
           done == acc.i + 1 >= COIN_RIS_LENGTH
       IN IF hash(part) # Expected(chooseLeft, acc.lh, acc.rh, acc.i)
          THEN acc' = [acc EXCEPT !.ris = <<>>, !.sides = <<>>, !.i = 0]
          ELSE acc' = [acc EXCEPT
                         !.ris = Pushed(acc.ris, part),
                         !.sides = Append(acc.sides, chooseLeft),
                         !.i = acc.i + 1,
                         !.state = IF done THEN "SharesCollected" ELSE "Parsed",
                         !.visited = IF done THEN Append(@, "SharesCollected")
                                     ELSE @]
    /\ UNCHANGED <<coin, result, verdict>>

\* one turn of the loop: draw a side, take the share, compare its hash
AcceptRound(chooseLeft) ==
    /\ acc.state = "Parsed"
    /\ LET part == getRis(coin, chooseLeft, acc.i)
           hashed == hash(part)
           expected == Expected(chooseLeft, acc.lh, acc.rh, acc.i)
           sides == Append(acc.sides, chooseLeft)
           done == acc.i + 1 >= COIN_RIS_LENGTH
       IN IF hashed # expected
          THEN Reject("ShareCommitmentMismatch", acc.i, sides)
          ELSE /\ acc' = [acc EXCEPT
                            !.ris = Pushed(acc.ris, part),
                            !.sides = sides,
                            !.i = acc.i + 1,
                            !.state = IF done THEN "SharesCollected" ELSE "Parsed",
                            !.visited = IF done THEN Append(@, "SharesCollected")
                                        ELSE @]
               /\ UNCHANGED result
    /\ UNCHANGED <<coin, verdict>>

\* faulty variant: a coin that was accepted is marked spent by dropping its signature
AcceptReturn_spends ==
    /\ acc.state = "SharesCollected"
    /\ acc' = [Idle EXCEPT !.state = "Accepted", !.m = acc.m]
    /\ result' = [result EXCEPT
                    ![acc.m] = Returned(acc.ris, acc.sides, acc.visited)]
    /\ coin' = [coin EXCEPT !.signature = NoSignature]
    /\ UNCHANGED verdict

\* return ris
AcceptReturn ==
    /\ acc.state = "SharesCollected"
    /\ acc' = [Idle EXCEPT !.state = "Accepted", !.m = acc.m]
    /\ result' = [result EXCEPT
                    ![acc.m] = Returned(acc.ris, acc.sides, acc.visited)]
    /\ UNCHANGED <<coin, verdict>>

---------------------------------------------------------------------------
\* determineCheater.

\* faulty variant: bytes are combined with themselves
XorBuffers_self(buf1, buf2) ==
    [j \in 1 .. Len(buf1) |-> ByteXor(buf1[j], buf1[j])]

\* xor[j] = buf1[j] ^ buf2[j], over the length of buf1; reading buf2 past
\* its end gives undefined, which ^ takes as 0
XorBuffers(buf1, buf2) ==
    [j \in 1 .. Len(buf1) |->
        ByteXor(buf1[j], IF j <= Len(buf2) THEN buf2[j] ELSE 0)]

\* faulty variant: the test is negated
MarkerFound_negated(xorStr) == ~StartsWith(xorStr, IDENT_STR)

\* xorStr.startsWith(IDENT_STR)
MarkerFound(xorStr) == StartsWith(xorStr, IDENT_STR)

NoVerdict == [call |-> "none", verdict |-> "none", id |-> <<>>, examined |-> 0]

\* the loop of determineCheater from round i on: the line printed, as the
\* verdict, the ID printed with it, and the number of rounds examined
\* Buffer.from(undefined, 'hex') throws a TypeError: an array with no entry
\* for round i ends the call without a verdict
RECURSIVE determineFrom(_, _, _)

\* faulty variant: the loop runs one round too far
determineFrom_oneMore(i, ris1, ris2) ==
    IF i > COIN_RIS_LENGTH
    THEN [call |-> "", verdict |-> "MerchantSuspected", id |-> <<>>,
          examined |-> i]
    ELSE IF i + 1 > Len(ris1) \/ i + 1 > Len(ris2)
    THEN [call |-> "", verdict |-> "TypeError", id |-> <<>>, examined |-> i]
    ELSE LET xorStr == BufToString(XorBuffers(FromHex(ris1[i + 1]),
                                              FromHex(ris2[i + 1])))
         IN IF MarkerFound(xorStr)
            THEN [call |-> "", verdict |-> "BuyerIdentified", id |-> xorStr,
                  examined |-> i + 1]
            ELSE determineFrom(i + 1, ris1, ris2)

\* faulty variant: a marker found does not end the loop, the last one wins
determineFrom_lastMatch(i, ris1, ris2) ==
    IF i >= COIN_RIS_LENGTH
    THEN [call |-> "", verdict |-> "MerchantSuspected", id |-> <<>>,
          examined |-> i]
    ELSE IF i + 1 > Len(ris1) \/ i + 1 > Len(ris2)
    THEN [call |-> "", verdict |-> "TypeError", id |-> <<>>, examined |-> i]
    ELSE LET xorStr == BufToString(XorBuffers(FromHex(ris1[i + 1]),
                                              FromHex(ris2[i + 1])))
             rest == determineFrom(i + 1, ris1, ris2)
         IN IF MarkerFound(xorStr) /\ rest.verdict # "BuyerIdentified"
            THEN [call |-> "", verdict |-> "BuyerIdentified", id |-> xorStr,
                  examined |-> i + 1]
            ELSE rest

determineFrom(i, ris1, ris2) ==
    IF i >= COIN_RIS_LENGTH
    THEN [call |-> "", verdict |-> "MerchantSuspected", id |-> <<>>,
          examined |-> i]
    ELSE IF i + 1 > Len(ris1) \/ i + 1 > Len(ris2)
    THEN [call |-> "", verdict |-> "TypeError", id |-> <<>>, examined |-> i]
    ELSE LET buf1 == FromHex(ris1[i + 1])
             buf2 == FromHex(ris2[i + 1])
             xorStr == BufToString(XorBuffers(buf1, buf2))
         IN IF MarkerFound(xorStr)
            THEN [call |-> "", verdict |-> "BuyerIdentified", id |-> xorStr,
                  examined |-> i + 1]
            ELSE determineFrom(i + 1, ris1, ris2)

\* faulty variant: the loop starts at round 1
determineCheater_fromSecond(guid, ris1, ris2) == determineFrom(1, ris1, ris2)

determineCheater(guid, ris1, ris2) == determineFrom(0, ris1, ris2)

---------------------------------------------------------------------------
\* The demo's operations, and what a purchaser can do to the coin it holds.

Init ==
    /\ coin = NoCoin
    /\ acc = Idle
    /\ result = [m \in Merchants |-> NoResult]
    /\ verdict = NoVerdict

\* let coin = new Coin(purchaser, amount, N, E)
NewCoin(purchaser, amount, guid, seed) ==
    /\ ~coin.created
    /\ coin' = Coin(purchaser, amount, N, E, guid, seed, BANK_STR)
    /\ UNCHANGED <<acc, result, verdict>>

\* a purchaser builds a coin of its own whose coin string names another issuer
ForgeCoin(purchaser, amount, guid, seed, tag) ==
    /\ ~coin.created
    /\ coin' = Coin(purchaser, amount, N, E, guid, seed, tag)
    /\ UNCHANGED <<acc, result, verdict>>

\* nobody has been handed the coin yet
NotPresented ==
    /\ acc.state = "Idle"
    /\ \A m \in Merchants : result[m].status = "none"

\* coin.signature = signCoin(coin.blinded): a plain assignment, whatever the
\* coin holds as its signature at that time
SignCoin ==
    /\ ~InProgress
    /\ coin.created
    /\ NotPresented
    /\ coin' = [coin EXCEPT !.signature = signCoin(coin.blinded)]
    /\ UNCHANGED <<acc, result, verdict>>

\* coin.unblind()
Unblind ==
    /\ ~InProgress
    /\ coin.signature.kind = "signedBlinded"
    /\ coin' = [coin EXCEPT
                  !.signature = unblind(coin.signature, coin.n, coin.blindingFactor)]
    /\ UNCHANGED <<acc, result, verdict>>

\* the holder changes one character of the coin string of a spendable coin
\* before presenting it
TamperCommitment(p, c) ==
    /\ NotPresented
    /\ coin.signature.kind = "signature"
    /\ coin.tamper.what = "none"
    /\ p \in 1 .. Len(coin.coinString)
    /\ coin.coinString[p] # c
    /\ coin' = [coin EXCEPT !.coinString[p] = c,
                            !.tamper = [what |-> "commitment", left |-> FALSE,
                                        round |-> 0]]
    /\ UNCHANGED <<acc, result, verdict>>

\* coin c with byte j of its left or right share of round i changed by mask
ShareChanged(c, left, i, j, mask) ==
    LET byte == ByteXor(getRis(c, left, i)[j], mask)
        mark == [what |-> "share", left |-> left, round |-> i]
    IN IF left
       THEN [c EXCEPT !.leftIdent[i + 1][j] = byte, !.tamper = mark]
       ELSE [c EXCEPT !.rightIdent[i + 1][j] = byte, !.tamper = mark]

\* the holder changes one byte of one share of a spendable coin before
\* presenting it
TamperShare(left, i, j, mask) ==
    /\ NotPresented
    /\ coin.signature.kind = "signature"
    /\ coin.tamper.what = "none"
    /\ j \in 1 .. Len(getRis(coin, left, i))
    /\ coin' = ShareChanged(coin, left, i, j, mask)
    /\ UNCHANGED <<acc, result, verdict>>

\* determineCheater(coin.guid, ris1, ris2), and the line it prints
ResolveBoth ==
    /\ ~InProgress
    /\ result[1].status = "Accepted"
    /\ result[2].status = "Accepted"
    /\ verdict' = [determineCheater(coin.guid, result[1].ris, result[2].ris)
                     EXCEPT !.call = "both"]
    /\ UNCHANGED <<coin, acc, result>>

\* determineCheater(coin.guid, ris1, ris1): the first merchant's share set
\* against itself
ResolveReplay ==
    /\ ~InProgress
    /\ result[1].status = "Accepted"
    /\ verdict' = [determineCheater(coin.guid, result[1].ris, result[1].ris)
                     EXCEPT !.call = "replay"]
    /\ UNCHANGED <<coin, acc, result>>

\* no share is longer than the marker and the longest purchaser name
MaxShareLen == Len(IDENT_STR) + 2

Next ==
    \/ \E purchaser \in Purchasers, amount \in 1 .. MaxAmount,
          guid \in Guids, seed \in 1 .. MaxSeed :
            NewCoin(purchaser, amount, guid, seed)
    \/ \E purchaser \in Purchasers, amount \in 1 .. MaxAmount,
          guid \in Guids, seed \in 1 .. MaxSeed, tag \in ForgedTags :
            ForgeCoin(purchaser, amount, guid, seed, tag)
    \/ SignCoin
    \/ Unblind
    \/ \E p \in 1 .. Len(coin.coinString), c \in TamperChars : TamperCommitment(p, c)
    \/ \E left \in BOOLEAN, i \in Rounds, j \in 1 .. MaxShareLen,
          mask \in TamperMasks : TamperShare(left, i, j, mask)
    \/ \E m \in Merchants : AcceptCoin(m)
    \/ AcceptVerify
    \/ AcceptParse
    \/ \E chooseLeft \in BOOLEAN : AcceptRound(chooseLeft)
    \/ AcceptReturn
    \/ ResolveBoth
    \/ ResolveReplay

Spec == Init /\ [][Next]_vars

---------------------------------------------------------------------------
\* determineCheater as a function of its inputs: the share sets are drawn
\* from share texts of equal and of unequal lengths, as two merchants may
\* report them.

\* the pair of shares of "IDENT-a" under seed 1, round 0
SampleOTP == makeOTP(IDENT_STR \o <<97>>, 1, 0)

\* share texts: the key, the ciphertext, the key with one bit flipped, the
\* key cut by one byte, the ciphertext with one byte more
ShareTexts ==
    { ToHex(SampleOTP.key),
      ToHex(SampleOTP.ciphertext),
      ToHex([SampleOTP.key EXCEPT ![1] = ByteXor(@, 1)]),
      ToHex(SubSeq(SampleOTP.key, 1, Len(SampleOTP.key) - 1)),
      ToHex(SampleOTP.ciphertext \o <<33>>) }

\* share sets of k entries, and of one entry less
ShareSets ==
    UNION { [1 .. n -> ShareTexts] : n \in {COIN_RIS_LENGTH - 1, COIN_RIS_LENGTH} }

Reported(ris) == [NoResult EXCEPT !.status = "Accepted", !.ris = ris]

InitResolve ==
    /\ coin = NoCoin
    /\ acc = Idle
    /\ \E ris1 \in ShareSets, ris2 \in ShareSets :
          result = [m \in Merchants |-> IF m = 1 THEN Reported(ris1)
                                        ELSE Reported(ris2)]
    /\ verdict = NoVerdict

NextResolve == ResolveBoth \/ ResolveReplay

SpecResolve == InitResolve /\ [][NextResolve]_vars

---------------------------------------------------------------------------
\* acceptCoin as a function of the coin it is handed: the coin is drawn from
\* the coins a purchaser can hold, and the two merchants call acceptCoin.

\* a guid with the delimiter in it: "0-b"
DashGuids == { <<48, Dash, 98>> }

\* coins as new Coin(...) builds them, bank-tagged or not
BuiltCoins ==
    { Coin(purchaser, amount, N, E, guid, seed, tag) :
          purchaser \in Purchasers, amount \in 1 .. MaxAmount,
          guid \in Guids \cup DashGuids, seed \in 1 .. MaxSeed,
          tag \in {BANK_STR} \cup ForgedTags }

\* after coin.signature = signCoin(coin.blinded)
SignedCoins ==
    { [c EXCEPT !.signature = signCoin(c.blinded)] : c \in BuiltCoins }

\* after coin.unblind()
UnblindedCoins ==
    { [c EXCEPT !.signature = unblind(c.signature, c.n, c.blindingFactor)] :
          c \in SignedCoins }

\* spendable coins of the bank with the first byte of one share changed
ShareChangedCoins ==
    { ShareChanged(c, left, i, 1, mask) :
          c \in { u \in UnblindedCoins : u.guid \in Guids /\ TagOf(u) = BANK_STR },
          left \in BOOLEAN, i \in Rounds, mask \in TamperMasks }

InitAccept ==
    /\ coin \in SignedCoins \cup UnblindedCoins \cup ShareChangedCoins
    /\ acc = Idle
    /\ result = [m \in Merchants |-> NoResult]
    /\ verdict = NoVerdict

\* the steps of a call of acceptCoin after its entry
AcceptStep ==
    \/ AcceptVerify
    \/ AcceptParse
    \/ \E chooseLeft \in BOOLEAN : AcceptRound(chooseLeft)
    \/ AcceptReturn

NextAccept ==
    \/ \E m \in Merchants : AcceptCoin(m)
    \/ AcceptStep

\* acceptCoin is synchronous straight-line code: a call that was entered
\* goes on to its next statement
SpecAccept == InitAccept /\ [][NextAccept]_vars /\ WF_vars(AcceptStep)

---------------------------------------------------------------------------
\* Properties.

\* the coin merchant m was handed was spendable and as the bank signed it
PresentedIntact(m) ==
    /\ result[m].sig = "signature"
    /\ coin.tamper.what = "none"

\* acceptCoin drew the tampered share of a coin with one tampered share
DrewTampered(sides) ==
    /\ coin.tamper.what = "share"
    /\ Len(sides) > coin.tamper.round
    /\ sides[coin.tamper.round + 1] = coin.tamper.left

C2_ReplayGivesMerchant ==
    verdict.call = "replay"
        => /\ verdict.verdict = "MerchantSuspected"
           /\ verdict.examined = COIN_RIS_LENGTH

C2_Witness ==
    /\ verdict.call = "replay"
    /\ verdict.verdict = "MerchantSuspected"
    /\ result[1].status = "Accepted"
    /\ Len(result[1].ris) = COIN_RIS_LENGTH

C4_TamperedStringInvalidSignature ==
    \A m \in Merchants :
        (result[m].status # "none" /\ coin.tamper.what = "commitment")
            => /\ result[m].status = "Rejected"
               /\ result[m].error = "InvalidSignature"
               /\ result[m].ris = <<>>
               /\ result[m].sides = <<>>

\* a coin whose string was changed inside a hash was rejected
C4_Witness ==
    \E m \in Merchants :
        /\ coin.tamper.what = "commitment"
        /\ TagOf(coin) = BANK_STR
        /\ Len(Split(CoinToString(coin), Dash)) = 5
        /\ result[m].status = "Rejected"
        /\ result[m].error = "InvalidSignature"

\* C5: when the share revealed in round i is not the committed one, the
\* call ends Rejected with ShareCommitmentMismatch at round i; the share is
\* held against the left hash when left was drawn and against the right
\* hash when right was drawn, so a mismatch arises in no other round.
C5_TamperedShareMismatch ==
    \A m \in Merchants :
        /\ (result[m].status # "none" /\ result[m].sig = "signature"
              /\ DrewTampered(result[m].sides))
              => /\ result[m].status = "Rejected"
                 /\ result[m].error = "ShareCommitmentMismatch"
                 /\ result[m].at = coin.tamper.round
        /\ result[m].error = "ShareCommitmentMismatch"
              => /\ DrewTampered(result[m].sides)
                 /\ result[m].at = coin.tamper.round
                 /\ Len(result[m].sides) = result[m].at + 1

\* the right share of the last round was tampered, and drawn
C5_Witness ==
    \E m \in Merchants :
        /\ result[m].error = "ShareCommitmentMismatch"
        /\ result[m].at = COIN_RIS_LENGTH - 1
        /\ ~coin.tamper.left

\* C6: the caller holds shares only of a call that verified all k rounds;
\* a call that failed anywhere leaves the caller with no share at all.
C6_NoPartialAcceptance ==
    \A m \in Merchants :
        /\ result[m].status = "Rejected" => result[m].ris = <<>>
        /\ result[m].ris # <<>>
              => /\ result[m].status = "Accepted"
                 /\ Len(result[m].ris) = COIN_RIS_LENGTH
                 /\ Len(result[m].sides) = COIN_RIS_LENGTH
        /\ result[m].status = "Accepted" => Len(result[m].ris) = COIN_RIS_LENGTH

\* a call failed in its last round, after the rounds before it had verified
C6_Witness ==
    \E m \in Merchants :
        /\ COIN_RIS_LENGTH > 1
        /\ result[m].status = "Rejected"
        /\ result[m].error = "ShareCommitmentMismatch"
        /\ result[m].at = COIN_RIS_LENGTH - 1
        /\ result[m].ris = <<>>

\* C7 as claimed: a coin with a foreign issuer tag is rejected as
\* MalformedCoin, and the signature was not verified before that.
C7_TagCheckedFirst ==
    \A m \in Merchants :
        (result[m].status # "none" /\ TagOf(coin) # BANK_STR)
            => /\ result[m].status = "Rejected"
               /\ result[m].error = "MalformedCoin"
               /\ result[m].visited = <<"Received", "Rejected">>

\* C7 as amended: a coin with a foreign issuer tag is rejected; the
\* signature is verified first, so the coin is rejected with
\* InvalidSignature when its signature does not verify, and with
\* MalformedCoin, after the signature check and before any side is drawn or
\* share hash compared, when it does.
C7_TagCheckedAfterSignature ==
    \A m \in Merchants :
        (result[m].status # "none" /\ TagOf(coin) # BANK_STR)
            => /\ result[m].status = "Rejected"
               /\ result[m].sides = <<>>
               /\ IF result[m].sig = "signature" /\ coin.tamper.what # "commitment"
                  THEN /\ result[m].error = "MalformedCoin"
                       /\ result[m].visited =
                              <<"Received", "SignatureChecked", "Rejected">>
                  ELSE /\ result[m].error = "InvalidSignature"
                       /\ result[m].visited = <<"Received", "Rejected">>

\* a validly signed coin with a foreign tag was rejected as malformed
C7_Witness ==
    \E m \in Merchants :
        /\ TagOf(coin) # BANK_STR
        /\ result[m].error = "MalformedCoin"
        /\ result[m].sig = "signature"

\* some round's two shares have different byte lengths
LengthsDiffer(ris1, ris2) ==
    \E i \in 1 .. COIN_RIS_LENGTH :
        /\ i <= Len(ris1)
        /\ i <= Len(ris2)
        /\ Len(FromHex(ris1[i])) # Len(FromHex(ris2[i]))

\* C8 as claimed: determineCheater fails with LengthMismatch, and gives no
\* verdict, when in some round the two shares have different byte lengths.
C8_LengthMismatchRaised ==
    (verdict.call = "both" /\ LengthsDiffer(result[1].ris, result[2].ris))
        => /\ verdict.verdict = "LengthMismatch"
           /\ verdict.id = <<>>

\* C9: the share set an accepted call returns has k entries, and entry i is
\* the hex text of the coin's left or right share of round i, the one of the
\* side drawn in round i.
C9_ReturnedSharesAreDrawnSides ==
    \A m \in Merchants :
        result[m].status = "Accepted"
            => /\ Len(result[m].ris) = COIN_RIS_LENGTH
               /\ Len(result[m].sides) = COIN_RIS_LENGTH
               /\ \A i \in Rounds :
                     /\ result[m].ris[i + 1] =
                            ToHex(getRis(coin, result[m].sides[i + 1], i))
                     /\ FromHex(result[m].ris[i + 1]) =
                            getRis(coin, result[m].sides[i + 1], i)

\* a call that drew right first and left last returned its shares
C9_Witness ==
    \E m \in Merchants :
        /\ result[m].status = "Accepted"
        /\ COIN_RIS_LENGTH > 1
        /\ ~result[m].sides[1]
        /\ result[m].sides[COIN_RIS_LENGTH]

\* C10: no step of acceptCoin changes the coin, whether the call ends
\* Accepted or Rejected.
C10_AcceptLeavesCoin ==
    [][(InProgress \/ InProgress') => coin' = coin]_vars

\* the same coin was accepted by one merchant and rejected by the other
C10_Witness ==
    /\ result[1].status = "Accepted"
    /\ result[2].status = "Rejected"
    /\ result[2].error = "ShareCommitmentMismatch"

\* two share sets of k entries each whose shares have equal byte lengths in
\* every round
WellFormed(ris1, ris2) ==
    /\ Len(ris1) = COIN_RIS_LENGTH
    /\ Len(ris2) = COIN_RIS_LENGTH
    /\ ~LengthsDiffer(ris1, ris2)

\* the second share set of the determineCheater call that printed verdict
SecondSet == IF verdict.call = "replay" THEN result[1].ris ELSE result[2].ris

\* C11: on two share sets of k entries each, of equal byte lengths in every
\* round, determineCheater ends without error after at most k rounds with
\* one of the two verdicts.
C11_VerdictOnWellFormed ==
    (verdict.call # "none" /\ WellFormed(result[1].ris, SecondSet))
        => /\ verdict.verdict \in {"BuyerIdentified", "MerchantSuspected"}
           /\ verdict.examined \in 1 .. COIN_RIS_LENGTH
           /\ verdict.verdict = "MerchantSuspected" => verdict.id = <<>>

\* two different well-formed share sets without a marker in any round were
\* resolved
C11_Witness ==
    /\ verdict.call = "both"
    /\ WellFormed(result[1].ris, result[2].ris)
    /\ result[1].ris # result[2].ris
    /\ verdict.verdict = "MerchantSuspected"

\* C12 as claimed: attaching a signature to a coin that already has one
\* fails and leaves the first signature in place: no step puts a response
\* of the bank in the place of a signature the coin already carries.
C12_SecondAttachRefused ==
    [][(coin.signature.kind # "none" /\ coin'.signature.kind = "signedBlinded")
          => coin'.signature = coin.signature]_vars

\* both merchants accepted the same spendable coin, as the bank signed it,
\* and the two share sets were resolved
HonestPair ==
    /\ verdict.call = "both"
    /\ \A m \in Merchants : result[m].status = "Accepted" /\ PresentedIntact(m)

\* C13: for two acceptances of the same unmodified spendable coin the verdict
\* is MerchantSuspected exactly when both drew the same side in every round,
\* and BuyerIdentified exactly when they drew different sides in some round.
C13_VerdictFollowsSides ==
    HonestPair
        => /\ verdict.verdict = "MerchantSuspected"
                <=> result[1].sides = result[2].sides
           /\ verdict.verdict = "BuyerIdentified"
                <=> \E i \in 1 .. COIN_RIS_LENGTH :
                        result[1].sides[i] # result[2].sides[i]

\* two merchants drew the same sides of an intact coin in every round and
\* the merchant was named
C13_Witness ==
    /\ HonestPair
    /\ result[1].sides = result[2].sides
    /\ Len(result[1].sides) = COIN_RIS_LENGTH
    /\ verdict.verdict = "MerchantSuspected"

\* the text determineCheater decodes in round i (counted from 1)
XorText(ris1, ris2, i) ==
    BufToString(XorBuffers(FromHex(ris1[i]), FromHex(ris2[i])))

\* the rounds for which both share sets have an entry
Present(ris1, ris2) ==
    { i \in 1 .. COIN_RIS_LENGTH : i <= Len(ris1) /\ i <= Len(ris2) }

\* the rounds whose decoded text begins with the marker
Marked(ris1, ris2) ==
    { i \in Present(ris1, ris2) : MarkerFound(XorText(ris1, ris2, i)) }

\* the verdict of determineCheater(guid, ris1, ris2), told from the rounds
\* that carry the marker: the lowest of them decides and is the last round
\* examined, and the merchant is named only when all k rounds were examined
\* and none carries it
FirstMatchWins(v, ris1, ris2) ==
    IF Marked(ris1, ris2) # {}
    THEN LET i == CHOOSE x \in Marked(ris1, ris2) :
                      \A y \in Marked(ris1, ris2) : x <= y
         IN /\ v.verdict = "BuyerIdentified"
            /\ v.examined = i
            /\ v.id = XorText(ris1, ris2, i)
    ELSE IF Present(ris1, ris2) = 1 .. COIN_RIS_LENGTH
    THEN v.verdict = "MerchantSuspected" /\ v.examined = COIN_RIS_LENGTH
    ELSE v.verdict = "TypeError"

\* C14: the first matching round wins: the verdict BuyerIdentified comes from
\* the lowest round whose XOR begins with the marker, no round after it is
\* examined, and MerchantSuspected comes only after all k rounds were
\* examined without a match.
C14_FirstMatchWins ==
    /\ verdict.call # "none"
          => FirstMatchWins(verdict, result[1].ris, SecondSet)
    /\ verdict.verdict = "MerchantSuspected"
          => /\ verdict.examined = COIN_RIS_LENGTH
             /\ Marked(result[1].ris, SecondSet) = {}

\* the marker is in round 0 and in a later round, with different texts, and
\* the text of round 0 was reported
C14_Witness ==
    /\ verdict.call = "both"
    /\ verdict.verdict = "BuyerIdentified"
    /\ verdict.examined = 1
    /\ \E i \in Marked(result[1].ris, result[2].ris) :
          /\ i > 1
          /\ XorText(result[1].ris, result[2].ris, i) # verdict.id

\* the states of an acceptance attempt before its terminal state, in order
\* ("Parsed" is the part of SignatureChecked after parseCoin returned, in
\* which the rounds run)
StateOrder == <<"Received", "SignatureChecked", "Parsed", "SharesCollected">>

IsPrefix(s, t) == Len(s) <= Len(t) /\ s = SubSeq(t, 1, Len(s))

\* the coin in hand would pass step 1 of acceptCoin
Spendable ==
    /\ coin.signature.kind = "signature"
    /\ coin.tamper.what # "commitment"

\* C15: an acceptance attempt visits Received, SignatureChecked,
\* SharesCollected and then Accepted or Rejected, in this order; no side is
\* drawn and no share is revealed before the signature check has succeeded,
\* and a coin rejected for an invalid signature has disclosed no share.
C15_SignatureBeforeShares ==
    /\ InProgress
          => /\ acc.visited # <<>>
             /\ IsPrefix(acc.visited, StateOrder)
             /\ acc.visited[Len(acc.visited)] = acc.state
             /\ (acc.sides # <<>> \/ acc.ris # <<>>)
                   => /\ Len(acc.visited) >= 3
                      /\ Spendable
             /\ acc.state = "Received" => acc.sides = <<>> /\ acc.ris = <<>>
    /\ \A m \in Merchants :
          result[m].status # "none"
              => LET v == result[m].visited
                     before == SubSeq(v, 1, Len(v) - 1)
                 IN /\ before # <<>>
                    /\ IsPrefix(before, StateOrder)
                    /\ v[Len(v)] = result[m].status
                    /\ result[m].status \in {"Accepted", "Rejected"}
                    /\ result[m].status = "Accepted" => before = StateOrder
                    /\ "SharesCollected" \in {before[j] : j \in 1 .. Len(before)}
                          => result[m].status = "Accepted"
                    /\ result[m].sides # <<>>
                          => /\ Len(before) >= 3
                             /\ result[m].sig = "signature"
                             /\ coin.tamper.what # "commitment"
                    /\ result[m].error = "InvalidSignature"
                          => /\ v = <<"Received", "Rejected">>
                             /\ result[m].sides = <<>>
                             /\ result[m].ris = <<>>
                    /\ (result[m].sig # "signature"
                          \/ coin.tamper.what = "commitment")
                          => result[m].error = "InvalidSignature"

\* one merchant was handed the coin before it was unblinded and refused it
\* without drawing a side; the other was handed it afterwards and went
\* through all the states
C15_Witness ==
    /\ result[1].error = "InvalidSignature"
    /\ result[1].sides = <<>>
    /\ result[2].status = "Accepted"
    /\ result[2].visited = StateOrder \o <<"Accepted">>
    /\ Len(result[2].sides) = COIN_RIS_LENGTH

\* C16: a coin that carries the bank's response but was not unblinded is
\* rejected with InvalidSignature; a coin is accepted only when it was
\* built, then signed, then unblinded.
C16_NotSpendableBeforeUnblind ==
    \A m \in Merchants :
        /\ result[m].sig = "signedBlinded"
              => /\ result[m].status = "Rejected"
                 /\ result[m].error = "InvalidSignature"
                 /\ result[m].ris = <<>>
        /\ result[m].status = "Accepted"
              => /\ coin.created
                 /\ result[m].sig = "signature"
                 /\ coin.signature =
                        unblind(signCoin(coin.blinded), coin.n, coin.blindingFactor)

\* an intact coin was presented signed and not unblinded, and was refused
C16_Witness ==
    \E m \in Merchants :
        /\ result[m].sig = "signedBlinded"
        /\ coin.tamper.what = "none"
        /\ TagOf(coin) = BANK_STR
        /\ result[m].error = "InvalidSignature"

Terminal == {"Accepted", "Rejected"}

\* how far a call of acceptCoin has got: one more with every statement run
Progress(a) ==
    CASE a.state = "Received" -> 1
      [] a.state = "SignatureChecked" -> 2
      [] a.state = "Parsed" -> 3 + a.i
      [] a.state = "SharesCollected" -> 3 + COIN_RIS_LENGTH
      [] a.state \in Terminal -> 4 + COIN_RIS_LENGTH
      [] OTHER -> 0

\* no call runs more than k rounds, and a call that has ended is in exactly
\* one terminal state, with what it gave its caller
AtMostKRounds ==
    /\ acc.i <= COIN_RIS_LENGTH
    /\ Len(acc.sides) <= COIN_RIS_LENGTH
    /\ acc.state \in Terminal => result[acc.m].status = acc.state
    /\ \A m \in Merchants :
          /\ result[m].status \in Terminal \cup {"none"}
          /\ Len(result[m].sides) <= COIN_RIS_LENGTH
          /\ result[m].status \in Terminal
                => { j \in 1 .. Len(result[m].visited) :
                         result[m].visited[j] \in Terminal }
                       = { Len(result[m].visited) }
          /\ result[m].status = "Rejected" <=> result[m].error # "none"

\* every statement of a call takes it further, and what a call that ended
\* gave its caller is never changed: no round follows an error and nothing
\* is run again
NothingRetried ==
    /\ InProgress => Progress(acc') > Progress(acc)
    /\ \A m \in Merchants :
          result[m].status \in Terminal => result'[m] = result[m]
    /\ acc'.state = "Rejected" /\ acc.state = "Parsed"
          => /\ result'[acc.m].at = acc.i
             /\ Len(result'[acc.m].sides) = acc.i + 1

\* C17: every acceptance attempt ends, after at most k rounds, in exactly
\* one of Accepted and Rejected; once an error was raised no further round
\* is run and nothing is retried.
C17_AttemptTerminates ==
    /\ [] AtMostKRounds
    /\ [][NothingRetried]_vars
    /\ InProgress ~> (acc.state \in Terminal)

\* a call ended with an error in a round that was not the last, and the
\* other merchant's call ended Accepted
C17_Witness ==
    /\ COIN_RIS_LENGTH > 1
    /\ \E m \in Merchants :
          /\ result[m].error = "ShareCommitmentMismatch"
          /\ result[m].at < COIN_RIS_LENGTH - 1
          /\ Len(result[m].sides) = result[m].at + 1
    /\ \E m \in Merchants : result[m].status = "Accepted"

\* the hashes written into the coin string when coin c was built
EmbeddedHashes(c, left) ==
    LET built == Coin(c.purchaser, c.amount, c.n, c.e, c.guid,
                      c.blindingFactor, TagOf(c))
    IN [i \in 1 .. COIN_RIS_LENGTH |-> hash(getRis(built, left, i - 1))]

\* C18 as claimed: from a coin string built as tag-amount-guid-left-right
\* with the bank's tag, parseCoin returns the k left hashes and the k right
\* hashes that were embedded, in order, whatever the amount and the guid.
C18_ParsesEmbeddedHashes ==
    (acc.state \in {"Parsed", "SharesCollected"} /\ coin.tamper.what # "commitment")
        => /\ acc.lh = EmbeddedHashes(coin, TRUE)
           /\ acc.rh = EmbeddedHashes(coin, FALSE)

\* determineCheater(guid, ris2, ris1): the call that printed verdict, with
\* its two share sets in the other order
Swapped == determineCheater(coin.guid, result[2].ris, result[1].ris)

\* C19 as claimed: determineCheater gives the same verdict and the same
\* identity whichever of the two share sets comes first.
C19_Symmetric ==
    verdict.call = "both"
        => /\ verdict.verdict = Swapped.verdict
           /\ verdict.id = Swapped.id

====
